---- MODULE Spec2Model ----
(***************************************************************************)
(* Model of the deet debugger session (proj-1/deet/src/debugger.rs).       *)
(*                                                                         *)
(* Debugger::run is a single-threaded command loop; each command handler   *)
(* runs to completion before the next command is read, so each handler is  *)
(* one action.  The Inferior (inferior.rs) and DwarfData (dwarf_data.rs)   *)
(* types are used by debugger.rs but their code is not part of the         *)
(* sources at hand; they are modelled from the written specification of    *)
(* TracedProcess / SymbolResolver.                                         *)
(*                                                                         *)
(* The module also models parallel_map (week6/parallel_map/src/main.rs)    *)
(* and LinkedList (week3/linked_list/src/linked_list.rs), each under a     *)
(* specification of its own.                                               *)
(***************************************************************************)
EXTENDS Integers, Sequences, FiniteSets, TLC

VARIABLES
    pc,           \* position of Debugger::run: "loop", "done" (returned), "panic"
    inferior,     \* Debugger.inferior: NoInferior (None) or the pid it owns
    breakpoints,  \* Debugger.breakpoints: Vec<usize>
    procs,        \* every child process started so far, indexed by pid
    log,          \* trace of calls made on the Inferior and of lines printed
    cmd,          \* the DebuggerCommand last returned by get_next_command
    ncmds,        \* number of commands handled so far
    addr_text,    \* parse_addr: the argument text
    addr_result,  \* parse_addr: the returned Option<usize>
    debug_data,   \* Debugger.debug_data: the addresses the debug information covers
    pm,           \* parallel_map: the locals of one call, its threads and channel
    ll            \* LinkedList: the node store and the lists in it

vars == <<pc, inferior, breakpoints, procs, log, cmd, ncmds, addr_text, addr_result,
          debug_data, pm, ll>>

\* the variables of the programs a specification does not run
Unused == [pc |-> "unused"]

----------------------------------------------------------------------------
(* Bounds of the model *)

MaxCmds == 4        \* commands read in one session
MaxTextLen == 3     \* length of the enumerated address texts
ProgLen == 2        \* instructions in the target's loop body
Passes == 2         \* times the target executes its loop body

----------------------------------------------------------------------------
(* Text and number helpers.  A text is a sequence of one-character         *)
(* strings.  A usize value is kept as its sequence of hexadecimal digits   *)
(* without leading zeros (<<>> is zero), so that 64-bit values are exact.  *)

Range(s) == {s[i] : i \in 1..Len(s)}

RadixChars == <<"0", "1", "2", "3", "4", "5", "6", "7", "8", "9",
                "a", "b", "c", "d", "e", "f">>

UpperChars == <<"0", "1", "2", "3", "4", "5", "6", "7", "8", "9",
                "A", "B", "C", "D", "E", "F">>

\* usize is 64 bits wide: 16 hexadecimal digits
WordHexDigits == 16

\* char::to_lowercase on the characters that occur
to_lowercase_char(c) ==
    IF c = "X" THEN "x"
    ELSE IF \E i \in 11..16 : UpperChars[i] = c
         THEN RadixChars[CHOOSE i \in 11..16 : UpperChars[i] = c]
         ELSE c

\* str::to_lowercase
to_lowercase(t) == [i \in 1..Len(t) |-> to_lowercase_char(t[i])]

\* str::starts_with
starts_with(t, p) == Len(t) >= Len(p) /\ SubSeq(t, 1, Len(p)) = p

\* char::to_digit(16): the digit's value, or -1 for None
to_digit(c) ==
    IF \E i \in 1..16 : RadixChars[i] = c
    THEN (CHOOSE i \in 1..16 : RadixChars[i] = c) - 1
    ELSE IF \E i \in 11..16 : UpperChars[i] = c
         THEN (CHOOSE i \in 11..16 : UpperChars[i] = c) - 1
         ELSE -1

None == [some |-> FALSE, val |-> <<>>]
Some(v) == [some |-> TRUE, val |-> v]

\* result.checked_mul(16) then checked_add(d) on a digit-sequence value:
\* None on overflow of the 64-bit word
checked_push(acc, d) ==
    LET w == IF acc = <<>> /\ d = 0 THEN <<>> ELSE Append(acc, d)
    IN  IF Len(w) > WordHexDigits THEN None ELSE Some(w)

RECURSIVE radix_digits(_, _)
radix_digits(digits, acc) ==
    IF digits = <<>> THEN Some(acc)
    ELSE IF to_digit(Head(digits)) = -1 THEN None
    ELSE LET r == checked_push(acc, to_digit(Head(digits)))
         IN  IF r.some THEN radix_digits(Tail(digits), r.val) ELSE None

\* usize::from_str_radix(src, 16).ok(): empty text, a lone sign, a minus
\* sign, a non-digit and an overflow are errors; one leading "+" is accepted
from_str_radix(src) ==
    IF src = <<>> THEN None
    ELSE IF Head(src) \in {"+", "-"} /\ Tail(src) = <<>> THEN None
    ELSE IF Head(src) = "+" THEN radix_digits(Tail(src), <<>>)
    ELSE radix_digits(src, <<>>)

\* Debugger::parse_addr
parse_addr(addr) ==
    LET suffix == IF starts_with(to_lowercase(addr), <<"0", "x">>)
                  THEN SubSeq(addr, 3, Len(addr))
                  ELSE addr
    IN  from_str_radix(suffix)

\* the number a digit-sequence value denotes (small values only)
RECURSIVE NatOf(_)
NatOf(v) == IF v = <<>> THEN 0 ELSE 16 * NatOf(SubSeq(v, 1, Len(v) - 1)) + v[Len(v)]

----------------------------------------------------------------------------
(* The target program and the traced child process (TracedProcess).        *)
(* The target's text is the addresses 1..ProgLen, one one-byte instruction *)
(* per address; it executes them in order, Passes times, then exits with   *)
(* code 0.  Addresses outside 1..ProgLen are unmapped.                     *)

Addr == 1..ProgLen
Entry == 1

\* the trap opcode, 0xcc
TRAP == 204

\* the instruction byte the target binary holds at address a
Opcode(a) == 144 + a

\* "no byte recorded" for an address of the breakpoint table
NoByte == -1

NoInferior == 0

Exited(code) == [kind |-> "exited", sig |-> "", val |-> code]
Signaled(sig) == [kind |-> "signaled", sig |-> sig, val |-> 0]
Stopped(sig, rip) == [kind |-> "stopped", sig |-> sig, val |-> rip]
NoStatus == [kind |-> "none", sig |-> "", val |-> 0]

Ok(status) == [ok |-> TRUE, status |-> status]
Err == [ok |-> FALSE, status |-> NoStatus]

\* a process is alive while it has neither exited nor been signaled; the
\* blocking wait that observes its end also reaps it
Alive(p) == p.state = "stopped"

\* write_byte(address, value): a raw one-byte poke; fails on an unmapped
\* address and on a process that is not stopped
write_byte_ok(p, a) == Alive(p) /\ a \in Addr

write_byte(p, a, value) ==
    IF write_byte_ok(p, a) THEN [p EXCEPT !.mem[a] = value] ELSE p

\* start: the child stops before its first instruction; for every mapped
\* address of the breakpoint list the trap is patched in and the displaced
\* byte recorded; unmapped addresses are skipped
start(bps) ==
    LET targets == Range(bps) \cap Addr
    IN  [state   |-> "stopped",
         rip     |-> Entry,
         pass    |-> 1,
         mem     |-> [a \in Addr |-> IF a \in targets THEN TRAP ELSE Opcode(a)],
         orig    |-> [a \in Addr |-> IF a \in targets THEN Opcode(a) ELSE NoByte],
         hits    |-> [a \in Addr |-> 0],
         stepped |-> [a \in Addr |-> 0],
         execs   |-> [a \in Addr |-> 0],
         trapAt  |-> 0,
         status  |-> Stopped("SIGTRAP", Entry)]

\* the target executes the one instruction at its instruction pointer
\* (state "running" means it goes on to the next one)
exec_one(p) ==
    LET a == p.rip
    IN  IF a \notin Addr
        THEN [p EXCEPT !.state = "stopped", !.trapAt = 0,
                       !.status = Stopped("SIGSEGV", a)]
        ELSE IF p.mem[a] = TRAP
        THEN [p EXCEPT !.state = "stopped", !.rip = a + 1, !.trapAt = a,
                       !.hits[a] = @ + 1,
                       !.status = Stopped("SIGTRAP",
                                          IF p.orig[a] # NoByte THEN a ELSE a + 1)]
        ELSE IF a < ProgLen
        THEN [p EXCEPT !.state = "running", !.rip = a + 1, !.execs[a] = @ + 1]
        ELSE IF p.pass < Passes
        THEN [p EXCEPT !.state = "running", !.rip = Entry, !.pass = @ + 1,
                       !.execs[a] = @ + 1]
        ELSE [p EXCEPT !.state = "exited", !.execs[a] = @ + 1,
                       !.status = Exited(0)]

\* PTRACE_CONT and the blocking wait: the target runs to its next stop or end
RECURSIVE run_to_stop(_)
run_to_stop(p) ==
    LET q == exec_one(p)
    IN  IF q.state = "running" THEN run_to_stop(q) ELSE q

\* step over the breakpoint at a: restore the original byte, rewind the
\* instruction pointer by one, single-step exactly one instruction, install
\* the trap again unless the process has exited meanwhile
step_over(p, a) ==
    LET restored == [p EXCEPT !.mem[a] = p.orig[a], !.rip = a, !.trapAt = 0,
                              !.stepped[a] = @ + 1]
        q == exec_one(restored)
    IN  IF q.state = "exited" THEN q
        ELSE [q EXCEPT !.state = "stopped", !.mem[a] = TRAP]

\* resume: fails cleanly on a process that has ended; otherwise steps over
\* the breakpoint it is stopped at (instruction pointer - 1 is an address
\* with a recorded original byte), then continues to the next stop or end.
\* killed: an outside signal kills the target while it runs.
resume_ok(p) == Alive(p)

resume(p, killed) ==
    LET a  == p.rip - 1
        p1 == IF a \in Addr /\ p.orig[a] # NoByte
              THEN step_over(p, a)
              ELSE [p EXCEPT !.trapAt = 0]
    IN  IF p1.state = "exited" THEN p1
        ELSE IF killed
        THEN [p1 EXCEPT !.state = "signaled", !.status = Signaled("SIGKILL")]
        ELSE run_to_stop(p1)

\* terminate: a live process is killed and reaped, giving Signaled; on a
\* process that has ended it returns the status observed before (again ==
\* "prev") or fails cleanly (again == "err")
terminate_ok(p, again) == Alive(p) \/ again = "prev"

terminate(p) ==
    IF Alive(p)
    THEN [p EXCEPT !.state = "signaled", !.status = Signaled("SIGKILL")]
    ELSE p

\* BreakpointEntry.original_byte: the byte recorded for address a in the
\* table of process p; the table goes with the process when it ends
original_byte(p, a) == IF Alive(p) THEN p.orig[a] ELSE NoByte

\* print_backtrace: walks the stack of a stopped process, fails otherwise
print_backtrace_ok(p) == Alive(p)

\* DwarfData::get_function_from_addr / get_line_from_addr: the function and
\* the line owning an address, none where the binary has no debug information
get_function_from_addr(rip) == IF rip \in debug_data THEN Some(<<rip>>) ELSE None
get_line_from_addr(rip) == IF rip \in debug_data THEN Some(<<rip>>) ELSE None

\* the debug information of the target binary: it covers the whole text, or
\* all of it but the last instruction
DebugDatas == {Addr, Addr \ {ProgLen}}

----------------------------------------------------------------------------
(* The Debugger (Session).  A session value s holds the fields a command   *)
(* handler reads and writes: pc, inferior, breakpoints, procs, log.        *)

Event(ev, pid, st, n, addr) == [ev |-> ev, pid |-> pid, st |-> st, n |-> n, addr |-> addr]

\* calls made on the Inferior
EvStart(pid, bps)    == Event("start", pid, NoStatus, Len(bps), 0)
EvResume(pid)        == Event("resume", pid, NoStatus, 0, 0)
EvTerminate(pid)     == Event("terminate", pid, NoStatus, 0, 0)
EvWriteByte(pid, a)  == Event("write_byte", pid, NoStatus, TRAP, a)
EvBacktrace(pid, ok) == Event("backtrace", pid, NoStatus, IF ok THEN 1 ELSE 0, 0)
\* lines printed
PrStatus(pid, st)    == Event("status", pid, st, 0, 0)
PrFailTerminate(pid) == Event("failed to terminate", pid, NoStatus, 0, 0)
PrFailRun(pid)       == Event("failed to run command", pid, NoStatus, 0, 0)
PrErrorStart         == Event("Error starting subprocess", 0, NoStatus, 0, 0)
PrRunFirst           == Event("please run target first", 0, NoStatus, 0, 0)
PrFailBreakpoint(a)  == Event("failed to set breakpoint", 0, NoStatus, 0, a)
PrSetBreakpoint(n, a) == Event("set breakpoint", 0, NoStatus, n, a)
PrInvalidBreakpoint  == Event("invalid breakpoint format", 0, NoStatus, 0, 0)

Sess == [pc |-> pc, inferior |-> inferior, breakpoints |-> breakpoints,
         procs |-> procs, log |-> log]

Emit(s, e) == [s EXCEPT !.log = Append(@, e)]

Panic(s) == [s EXCEPT !.pc = "panic"]

\* Debugger::print_status: the Stopped arm unwraps the function and the line
\* of the reported instruction pointer
print_status(s, pid, status) ==
    IF /\ status.kind = "stopped"
       /\ \/ ~get_function_from_addr(status.val).some
          \/ ~get_line_from_addr(status.val).some
    THEN Panic(s)
    ELSE Emit(s, PrStatus(pid, status))

\* variant of terminate_and_report whose Ok arm prints nothing
terminate_unreported(s, again) ==
    LET pid == s.inferior
        p   == s.procs[pid]
        s1  == Emit([s EXCEPT !.procs[pid] = terminate(p)], EvTerminate(pid))
    IN  IF terminate_ok(p, again) THEN s1 ELSE Emit(s1, PrFailTerminate(pid))

\* self.inferior.as_mut().unwrap().terminate() and the match on its result
terminate_and_report(s, again) ==
    LET pid == s.inferior
        p   == s.procs[pid]
        s1  == Emit([s EXCEPT !.procs[pid] = terminate(p)], EvTerminate(pid))
    IN  IF terminate_ok(p, again)
        THEN print_status(s1, pid, s1.procs[pid].status)
        ELSE Emit(s1, PrFailTerminate(pid))

\* variant of cont_and_report that unwraps the result of cont()
cont_and_unwrap(s, killed) ==
    LET pid == s.inferior
        p   == s.procs[pid]
    IN  IF resume_ok(p)
        THEN LET s1 == Emit([s EXCEPT !.procs[pid] = resume(p, killed)], EvResume(pid))
             IN  print_status(s1, pid, s1.procs[pid].status)
        ELSE Panic(s)

\* self.inferior.as_mut().unwrap().cont() and the match on its result
cont_and_report(s, killed) ==
    LET pid == s.inferior
        p   == s.procs[pid]
    IN  IF resume_ok(p)
        THEN LET s1 == Emit([s EXCEPT !.procs[pid] = resume(p, killed)], EvResume(pid))
             IN  print_status(s1, pid, s1.procs[pid].status)
        ELSE Emit(s, PrFailRun(pid))

\* variant of terminate_previous that leaves the previous target alone
terminate_previous_skip(s, again) == s

\* DebuggerCommand::Run, first part: make sure no previous target exists
terminate_previous(s, again) ==
    IF s.inferior # NoInferior THEN terminate_and_report(s, again) ELSE s

\* DebuggerCommand::Run, second part: create the inferior and continue it
start_and_cont(s, started, killed) ==
    IF started
    THEN LET pid == Len(s.procs) + 1
             s1  == Emit([s EXCEPT !.procs = Append(@, start(s.breakpoints)),
                                   !.inferior = pid],
                         EvStart(pid, s.breakpoints))
         IN  cont_and_report(s1, killed)
    ELSE Emit(s, PrErrorStart)

\* DebuggerCommand::Run
handle_run(s, again, started, killed) ==
    LET s1 == terminate_previous(s, again)
    IN  IF s1.pc = "panic" THEN s1 ELSE start_and_cont(s1, started, killed)

\* variant of handle_continue that unwraps the inferior without the guard
handle_continue_unwrap(s, killed) ==
    IF s.inferior = NoInferior THEN Panic(s) ELSE cont_and_report(s, killed)

\* DebuggerCommand::Continue
handle_continue(s, killed) ==
    IF s.inferior = NoInferior
    THEN Emit(s, PrRunFirst)
    ELSE cont_and_report(s, killed)

\* DebuggerCommand::BackTrace: unwraps the inferior, drops the result
handle_backtrace(s) ==
    IF s.inferior = NoInferior
    THEN Panic(s)
    ELSE Emit(s, EvBacktrace(s.inferior, print_backtrace_ok(s.procs[s.inferior])))

\* variant of breakpoint_number that prints the length of the list
breakpoint_number_len(bps) == Len(bps)

\* the number printed for a new breakpoint: self.breakpoints.len() - 1
breakpoint_number(bps) == Len(bps) - 1

\* the breakpoint command on a running inferior: the byte write_byte
\* returns is dropped (Ok(_) => {}), a failure is printed
patch_inferior(s, a) ==
    LET pid == s.inferior
        p   == s.procs[pid]
        s1  == Emit([s EXCEPT !.procs[pid] = write_byte(p, a, TRAP)],
                    EvWriteByte(pid, a))
    IN  IF write_byte_ok(p, a) THEN s1 ELSE Emit(s1, PrFailBreakpoint(a))

\* DebuggerCommand::Breakpoint
handle_breakpoint(s, text) ==
    LET r == parse_addr(text)
    IN  IF r.some
        THEN LET a  == NatOf(r.val)
                 s1 == [s EXCEPT !.breakpoints = Append(@, a)]
                 s2 == IF s1.inferior # NoInferior THEN patch_inferior(s1, a) ELSE s1
             IN  Emit(s2, PrSetBreakpoint(breakpoint_number(s2.breakpoints), a))
        ELSE Emit(s, PrInvalidBreakpoint)

\* DebuggerCommand::Quit: unwraps the inferior, terminates it, returns
handle_quit(s, again) ==
    IF s.inferior = NoInferior
    THEN Panic(s)
    ELSE LET s1 == terminate_and_report(s, again)
         IN  IF s1.pc = "panic" THEN s1 ELSE [s1 EXCEPT !.pc = "done"]

\* Debugger::get_next_command: end of input is the quit command
get_next_command(line) == IF line = "eof" THEN "quit" ELSE line

----------------------------------------------------------------------------
(* The command loop *)

\* address texts typed at the breakpoint command: 0x1, 2, 0Xf (unmapped in
\* the target), g (no address) and +1 (a sign before the digits)
BpTexts == {<<"0", "x", "1">>, <<"2">>, <<"0", "X", "f">>, <<"g">>, <<"+", "1">>}

NoCmd == [name |-> "", arg |-> <<>>]

Init ==
    /\ pc = "loop"
    /\ inferior = NoInferior
    /\ breakpoints = <<>>
    /\ procs = <<>>
    /\ log = <<>>
    /\ cmd = NoCmd
    /\ ncmds = 0
    /\ addr_text = <<>>
    /\ addr_result = None
    /\ debug_data \in DebugDatas
    /\ pm = Unused
    /\ ll = Unused

CanRead == pc = "loop" /\ ncmds < MaxCmds

\* one turn of the loop of Debugger::run: the command read, handled to its end
Dispatch(name, arg, s) ==
    /\ pc' = s.pc
    /\ inferior' = s.inferior
    /\ breakpoints' = s.breakpoints
    /\ procs' = s.procs
    /\ log' = s.log
    /\ cmd' = [name |-> name, arg |-> arg]
    /\ ncmds' = ncmds + 1
    /\ UNCHANGED <<addr_text, addr_result, debug_data, pm, ll>>

Run ==
    /\ CanRead
    /\ \E again \in {"prev", "err"}, started \in BOOLEAN, killed \in BOOLEAN :
          Dispatch("run", <<>>, handle_run(Sess, again, started, killed))

Continue ==
    /\ CanRead
    /\ \E killed \in BOOLEAN :
          Dispatch("continue", <<>>, handle_continue(Sess, killed))

BackTrace ==
    /\ CanRead
    /\ Dispatch("backtrace", <<>>, handle_backtrace(Sess))

Breakpoint ==
    /\ CanRead
    /\ \E text \in BpTexts :
          Dispatch("breakpoint", text, handle_breakpoint(Sess, text))

Quit ==
    /\ CanRead
    /\ \E line \in {"quit", "eof"}, again \in {"prev", "err"} :
          /\ get_next_command(line) = "quit"
          /\ Dispatch("quit", <<>>, handle_quit(Sess, again))

Next == Run \/ Continue \/ BackTrace \/ Breakpoint \/ Quit

Spec == Init /\ [][Next]_vars

----------------------------------------------------------------------------
(* parse_addr on its own: every text over AddrChars up to MaxTextLen and   *)
(* the texts of AddrExamples                                               *)

AddrChars == {"0", "1", "a", "A", "x", "X", "g", "+", "-"}

Rep(c, n) == [i \in 1..n |-> c]

AddrExamples ==
    { <<"0", "x", "1", "a">>, <<"0", "X", "1", "A">>, <<"1", "a">>,
      <<"x", "y", "z">>, <<>>, <<"0", "x", "g", "1">>,
      <<"+", "1", "a">>, <<"0", "x", "+", "1", "a">>, <<"-", "1", "a">>,
      Rep("f", WordHexDigits), <<"0", "x">> \o Rep("F", WordHexDigits),
      <<"1">> \o Rep("0", WordHexDigits), Rep("0", WordHexDigits) \o <<"1">> }

AddrTexts ==
    AddrExamples \cup UNION {[1..n -> AddrChars] : n \in 0..MaxTextLen}

InitParse ==
    /\ pc = "parse"
    /\ addr_text \in AddrTexts
    /\ addr_result = None
    /\ inferior = NoInferior
    /\ breakpoints = <<>>
    /\ procs = <<>>
    /\ log = <<>>
    /\ cmd = NoCmd
    /\ ncmds = 0
    /\ debug_data = Addr
    /\ pm = Unused
    /\ ll = Unused

ParseAddr ==
    /\ pc = "parse"
    /\ addr_result' = parse_addr(addr_text)
    /\ pc' = "parsed"
    /\ UNCHANGED <<inferior, breakpoints, procs, log, cmd, ncmds, addr_text,
                   debug_data, pm, ll>>

NextParse == ParseAddr

SpecParse == InitParse /\ [][NextParse]_vars

----------------------------------------------------------------------------
(* parallel_map (week6/parallel_map/src/main.rs).  The calling thread and  *)
(* the worker threads run concurrently; they share only the channel.  pm   *)
(* holds the locals of one call: input_vec, output_vec, the loop counter   *)
(* i, the sender tx, the spawned threads (each with its nums, its sender   *)
(* clone and whether it has finished), the channel, and how many handles   *)
(* have been joined.  orig, applied and handed are history: the input as   *)
(* passed, and per element how often f was applied and how often it was    *)
(* moved into a worker's nums.                                             *)

MaxInput == 3       \* length of input_vec
MaxThreads == 3     \* num_threads
MaxVal == 2         \* element values are 1..MaxVal

\* the closure passed by main: num * num
F(num) == num * num

\* Default::default() of the output element type
Default == 0

dbgvars == <<pc, inferior, breakpoints, procs, log, cmd, ncmds, addr_text,
             addr_result, debug_data>>

\* the debugger's variables in a specification that does not run it
DebuggerUnused ==
    /\ pc = "unused"
    /\ inferior = NoInferior
    /\ breakpoints = <<>>
    /\ procs = <<>>
    /\ log = <<>>
    /\ cmd = NoCmd
    /\ ncmds = 0
    /\ addr_text = <<>>
    /\ addr_result = None
    /\ debug_data = Addr

\* variant of pm_batch without the + 1
pm_batch_floor(len, num_threads) == len \div num_threads

\* let batch = input_vec.len() / num_threads + 1
pm_batch(len, num_threads) == (len \div num_threads) + 1

\* the inner loop of the spawn loop: up to n times, pop the last element of
\* v and push (v.len(), element) onto nums; indices count from 0
RECURSIVE take_batch(_, _, _)
take_batch(v, nums, n) ==
    IF n = 0 \/ v = <<>>
    THEN [input_vec |-> v, nums |-> nums]
    ELSE take_batch(SubSeq(v, 1, Len(v) - 1),
                    Append(nums, <<Len(v) - 1, v[Len(v)]>>),
                    n - 1)

\* the state after lines 10-17: output_vec filled with defaults, the channel
\* created, no thread yet
pm_start(input, num_threads) ==
    [pc          |-> "spawn",
     orig        |-> input,
     num_threads |-> num_threads,
     batch       |-> pm_batch(Len(input), num_threads),
     input_vec   |-> input,
     output_vec  |-> [k \in 1..Len(input) |-> Default],
     i           |-> 0,
     tx          |-> TRUE,
     threads     |-> <<>>,
     chan        |-> <<>>,
     joined      |-> 0,
     applied     |-> [k \in 1..Len(input) |-> 0],
     handed      |-> [k \in 1..Len(input) |-> 0]]

PMInputs == UNION {[1..n -> 1..MaxVal] : n \in 0..MaxInput}

InitPM ==
    /\ DebuggerUnused
    /\ ll = Unused
    /\ \E input \in PMInputs, num_threads \in 1..MaxThreads :
          pm = pm_start(input, num_threads)

\* one turn of the spawn loop (lines 18-41): fill nums; leave the loop if it
\* is empty, else clone the sender and spawn the thread
PMSpawn ==
    /\ pm.pc = "spawn"
    /\ pm.i < pm.num_threads
    /\ LET b == take_batch(pm.input_vec, <<>>, pm.batch)
       IN  IF b.nums = <<>>
           THEN pm' = [pm EXCEPT !.pc = "drop_tx"]
           ELSE pm' = [pm EXCEPT
                  !.input_vec = b.input_vec,
                  !.threads = Append(@, [nums |-> b.nums, sender |-> TRUE,
                                         finished |-> FALSE]),
                  !.handed = [k \in DOMAIN @ |->
                                @[k] + Cardinality({j \in 1..Len(b.nums) :
                                                      b.nums[j][1] + 1 = k})],
                  !.i = @ + 1,
                  !.pc = IF pm.i + 1 = pm.num_threads THEN "drop_tx" ELSE "spawn"]
    /\ UNCHANGED <<dbgvars, ll>>

\* variant of PMDropTx that keeps the sender of the calling thread
PMDropTx_kept ==
    /\ pm.pc = "drop_tx"
    /\ pm' = [pm EXCEPT !.pc = "recv"]
    /\ UNCHANGED <<dbgvars, ll>>

\* drop(tx)
PMDropTx ==
    /\ pm.pc = "drop_tx"
    /\ pm' = [pm EXCEPT !.tx = FALSE, !.pc = "recv"]
    /\ UNCHANGED <<dbgvars, ll>>

\* rx.recv() returns a message: output_vec[index] = res
PMRecv ==
    /\ pm.pc = "recv"
    /\ pm.chan # <<>>
    /\ LET msg == Head(pm.chan)
       IN  pm' = [pm EXCEPT !.chan = Tail(@), !.output_vec[msg[1] + 1] = msg[2]]
    /\ UNCHANGED <<dbgvars, ll>>

\* rx.recv() returns Err: the channel is empty and every sender is dropped
PMRecvDisconnected ==
    /\ pm.pc = "recv"
    /\ pm.chan = <<>>
    /\ ~pm.tx
    /\ \A w \in 1..Len(pm.threads) : ~pm.threads[w].sender
    /\ pm' = [pm EXCEPT !.pc = "join"]
    /\ UNCHANGED <<dbgvars, ll>>

\* handle.join() of the next handle returns once its thread has finished
PMJoin ==
    /\ pm.pc = "join"
    /\ pm.joined < Len(pm.threads)
    /\ pm.threads[pm.joined + 1].finished
    /\ pm' = [pm EXCEPT !.joined = @ + 1]
    /\ UNCHANGED <<dbgvars, ll>>

\* every handle joined: output_vec is returned
PMReturn ==
    /\ pm.pc = "join"
    /\ pm.joined = Len(pm.threads)
    /\ pm' = [pm EXCEPT !.pc = "done"]
    /\ UNCHANGED <<dbgvars, ll>>

\* worker w: nums.pop() is Some((index, num)): send (index, f(num)); the
\* channel is unbounded, so the send does not block
PMWorkerSend(w) ==
    /\ w \in 1..Len(pm.threads)
    /\ pm.threads[w].nums # <<>>
    /\ LET nums == pm.threads[w].nums
           item == nums[Len(nums)]
       IN  pm' = [pm EXCEPT
                  !.threads[w].nums = SubSeq(nums, 1, Len(nums) - 1),
                  !.chan = Append(@, <<item[1], F(item[2])>>),
                  !.applied[item[1] + 1] = @ + 1]
    /\ UNCHANGED <<dbgvars, ll>>

\* worker w: nums.pop() is None: the closure ends, its sender is dropped
PMWorkerExit(w) ==
    /\ w \in 1..Len(pm.threads)
    /\ pm.threads[w].nums = <<>>
    /\ ~pm.threads[w].finished
    /\ pm' = [pm EXCEPT !.threads[w].sender = FALSE, !.threads[w].finished = TRUE]
    /\ UNCHANGED <<dbgvars, ll>>

PMMain == PMSpawn \/ PMDropTx \/ PMRecv \/ PMRecvDisconnected \/ PMJoin \/ PMReturn

PMWorker(w) == PMWorkerSend(w) \/ PMWorkerExit(w)

NextPM == PMMain \/ \E w \in 1..MaxThreads : PMWorker(w)

SpecPM == InitPM /\ [][NextPM]_vars

\* the scheduler lets the calling thread and every worker thread run
SpecPMLive ==
    /\ SpecPM
    /\ WF_vars(PMMain)
    /\ \A w \in 1..MaxThreads : WF_vars(PMWorker(w))

----------------------------------------------------------------------------
(* LinkedList (week3/linked_list/src/linked_list.rs).  Boxes are cells of  *)
(* a heap: heap[id] is the node stored in cell id, next is the id of the   *)
(* next node or Nil.  ll holds the heap, two list values (the second one   *)
(* comes into being by clone), and as history a reference sequence per     *)
(* list and the last operation with what it returned.                      *)

MaxNodes == 4       \* heap cells
MaxElem == 2        \* element values are 1..MaxElem

Nil == 0
NodeIds == 1..MaxNodes
FreeNode == [used |-> FALSE, value |-> 0, next |-> Nil]

\* Node::new(value, next)
Node(value, next) == [used |-> TRUE, value |-> value, next |-> next]

\* LinkedList::new()
ll_new == [live |-> TRUE, head |-> Nil, size |-> 0]

\* a list value that does not exist (not yet cloned, or dropped)
NoList == [live |-> FALSE, head |-> Nil, size |-> 0]

get_size(list) == list.size

is_empty(list) == get_size(list) = 0

\* push_front: the new box takes the old head as its next; id is the cell
\* the allocator returns
push_front(h, list, value, id) ==
    [heap |-> [h EXCEPT ![id] = Node(value, list.head)],
     list |-> [list EXCEPT !.head = id, !.size = @ + 1]]

\* variant of pop_front that leaves size alone
pop_front_keep_size(h, list) ==
    IF list.head = Nil
    THEN [heap |-> h, list |-> list, ret |-> None]
    ELSE [heap |-> [h EXCEPT ![list.head] = FreeNode],
          list |-> [list EXCEPT !.head = h[list.head].next],
          ret  |-> Some(h[list.head].value)]

\* pop_front: head.take()? returns None on an empty list; else the head
\* moves to node.next, size drops by one, the box is freed
pop_front(h, list) ==
    IF list.head = Nil
    THEN [heap |-> h, list |-> list, ret |-> None]
    ELSE [heap |-> [h EXCEPT ![list.head] = FreeNode],
          list |-> [list EXCEPT !.head = h[list.head].next, !.size = @ - 1],
          ret  |-> Some(h[list.head].value)]

\* the values front to back, as the traversal of Display::fmt visits them
RECURSIVE values_of(_, _)
values_of(h, cur) ==
    IF cur = Nil THEN <<>> ELSE <<h[cur].value>> \o values_of(h, h[cur].next)

\* variant of ll_collect that appends each value instead of inserting it
\* at position 0
RECURSIVE ll_collect_push(_, _, _)
ll_collect_push(h, cur, elements) ==
    IF cur = Nil
    THEN elements
    ELSE ll_collect_push(h, h[cur].next, Append(elements, h[cur].value))

\* the traversal of clone: elements.insert(0, node.value.clone())
RECURSIVE ll_collect(_, _, _)
ll_collect(h, cur, elements) ==
    IF cur = Nil
    THEN elements
    ELSE ll_collect(h, h[cur].next, <<h[cur].value>> \o elements)

\* for val in elements { new_list.push_front(val) }, ids the cells allocated
RECURSIVE push_all(_, _, _, _)
push_all(h, list, elements, ids) ==
    IF elements = <<>>
    THEN [heap |-> h, list |-> list]
    ELSE LET r == push_front(h, list, Head(elements), Head(ids))
         IN  push_all(r.heap, r.list, Tail(elements), Tail(ids))

\* Clone::clone
clone(h, list, ids) ==
    push_all(h, ll_new, ll_collect(h, list.head, <<>>), ids)

\* Drop::drop: every box of the list is freed
RECURSIVE drop(_, _)
drop(h, cur) ==
    IF cur = Nil THEN h ELSE drop([h EXCEPT ![cur] = FreeNode], h[cur].next)

FreeIds(h) == {id \in NodeIds : ~h[id].used}

\* the cells n successive allocations may return
IdSeqs(free, n) ==
    {ids \in [1..n -> free] : \A i, j \in 1..n : i # j => ids[i] # ids[j]}

LastOp(op, l, ret) == [op |-> op, list |-> l, ret |-> ret]

InitLL ==
    /\ DebuggerUnused
    /\ pm = Unused
    /\ ll = [pc    |-> "ll",
             heap  |-> [id \in NodeIds |-> FreeNode],
             lists |-> <<ll_new, NoList>>,
             ref   |-> <<<<>>, <<>>>>,
             last  |-> LastOp("new", 1, None)]

LLPushFront(l, value) ==
    /\ ll.pc = "ll"
    /\ ll.lists[l].live
    /\ \E id \in FreeIds(ll.heap) :
          LET r == push_front(ll.heap, ll.lists[l], value, id)
          IN  ll' = [ll EXCEPT !.heap = r.heap,
                               !.lists[l] = r.list,
                               !.ref[l] = <<value>> \o @,
                               !.last = LastOp("push_front", l, None)]
    /\ UNCHANGED <<dbgvars, pm>>

LLPopFront(l) ==
    /\ ll.pc = "ll"
    /\ ll.lists[l].live
    /\ LET r == pop_front(ll.heap, ll.lists[l])
       IN  ll' = [ll EXCEPT !.heap = r.heap,
                            !.lists[l] = r.list,
                            !.ref[l] = IF @ = <<>> THEN @ ELSE Tail(@),
                            !.last = LastOp("pop_front", l, r.ret)]
    /\ UNCHANGED <<dbgvars, pm>>

\* lists[dst] = lists[src].clone()
LLClone(src, dst) ==
    /\ ll.pc = "ll"
    /\ src # dst
    /\ ll.lists[src].live
    /\ ~ll.lists[dst].live
    /\ \E ids \in IdSeqs(FreeIds(ll.heap), get_size(ll.lists[src])) :
          LET r == clone(ll.heap, ll.lists[src], ids)
          IN  ll' = [ll EXCEPT !.heap = r.heap,
                               !.lists[dst] = r.list,
                               !.ref[dst] = ll.ref[src],
                               !.last = LastOp("clone", dst, None)]
    /\ UNCHANGED <<dbgvars, pm>>

\* lists[l] goes out of scope
LLDrop(l) ==
    /\ ll.pc = "ll"
    /\ ll.lists[l].live
    /\ ll' = [ll EXCEPT !.heap = drop(ll.heap, ll.lists[l].head),
                        !.lists[l] = NoList,
                        !.ref[l] = <<>>,
                        !.last = LastOp("drop", l, None)]
    /\ UNCHANGED <<dbgvars, pm>>

NextLL ==
    \E l \in 1..2 :
       \/ \E value \in 1..MaxElem : LLPushFront(l, value)
       \/ LLPopFront(l)
       \/ LLClone(l, 3 - l)
       \/ LLDrop(l)

SpecLL == InitLL /\ [][NextLL]_vars

----------------------------------------------------------------------------
(* Properties *)

\* the step that handles the command called name
Took(name) == ncmds' = ncmds + 1 /\ cmd'.name = name

\* what the step added to the log
Added == SubSeq(log', Len(log) + 1, Len(log'))

LogIndex == 1..Len(log)

\* C1: whatever commands are fed to the loop, the session never panics: each
\* command completes and the loop goes on, or quit ends the session.
C1_NeverPanics == pc # "panic"

\* C2: quit terminates a live target and reports its final status before the
\* session ends; with no target the session ends at once, normally, and no
\* terminate is attempted.
C2_QuitEndsSession ==
    [][Took("quit") =>
         /\ pc' = "done"
         /\ IF inferior = NoInferior
            THEN Added = <<>> /\ procs' = procs
            ELSE Alive(procs[inferior]) =>
                   /\ ~Alive(procs'[inferior])
                   /\ Added = <<EvTerminate(inferior),
                                PrStatus(inferior, Signaled("SIGKILL"))>>]_vars

\* C3: backtrace with no target is recoverable: it is reported, no stack walk
\* is attempted, process and breakpoint list are unchanged, and the loop goes
\* on to the next command.
C3_BacktraceNoTarget ==
    [][Took("backtrace") /\ inferior = NoInferior =>
         /\ pc' = "loop"
         /\ Len(Added) = 1
         /\ Added[1].ev # "backtrace"
         /\ UNCHANGED <<inferior, breakpoints, procs>>]_vars

\* C4: continue with no target prints the no-active-target line and nothing
\* else: no resume is issued, no status is printed, breakpoint list and
\* (absent) process are unchanged, and the loop goes on to the next command.
C4_ContinueNoTarget ==
    [][Took("continue") /\ inferior = NoInferior =>
         /\ pc' = "loop"
         /\ Added = <<PrRunFirst>>
         /\ UNCHANGED <<inferior, breakpoints, procs>>]_vars

C4_Witness ==
    /\ cmd.name = "continue"
    /\ inferior = NoInferior
    /\ pc = "loop"
    /\ log # <<>>
    /\ log[Len(log)] = PrRunFirst
    /\ breakpoints # <<>>

\* C5: once the target has exited or been signaled, a continue does not
\* resume it again: it prints a failure, changes nothing in the session, and
\* the loop goes on, however many continues follow.
C5_ContinueAfterEnd ==
    [][/\ Took("continue")
       /\ inferior # NoInferior
       /\ procs[inferior].status.kind \in {"exited", "signaled"}
       =>
       /\ pc' = "loop"
       /\ Added = <<PrFailRun(inferior)>>
       /\ UNCHANGED <<inferior, breakpoints, procs>>]_vars

C5_Witness ==
    /\ cmd.name = "continue"
    /\ pc = "loop"
    /\ inferior # NoInferior
    /\ \E i \in LogIndex : log[i] = PrStatus(inferior, Exited(0))
    /\ Cardinality({i \in LogIndex : log[i] = PrFailRun(inferior)}) >= 2
    /\ Cardinality({i \in LogIndex : log[i] = EvResume(inferior)}) = 1

C7_RunTerminatesFirst ==
    [][/\ Took("run")
       /\ inferior # NoInferior
       /\ Alive(procs[inferior])
       =>
       /\ Len(Added) >= 3
       /\ Added[1] = EvTerminate(inferior)
       /\ Added[2] = PrStatus(inferior, Signaled("SIGKILL"))
       /\ ~Alive(procs'[inferior])
       /\ \A i \in 1..Len(Added) :
             /\ Added[i].ev = "start" => i = 3
             /\ Added[i].pid = Len(procs) + 1 => i >= 3]_vars

C7_Witness ==
    /\ cmd.name = "run"
    /\ \E i \in LogIndex :
          /\ i + 3 <= Len(log)
          /\ log[i].ev = "status" /\ log[i].pid = 1 /\ log[i].st.kind = "stopped"
          /\ log[i + 1] = EvTerminate(1)
          /\ log[i + 2] = PrStatus(1, Signaled("SIGKILL"))
          /\ log[i + 3].ev = "start" /\ log[i + 3].pid = 2

\* the "set breakpoint" lines printed so far, in order
SetLines == SelectSeq(log, LAMBDA e : e.ev = "set breakpoint")

\* C8: the k-th breakpoint command with a valid address (from 0) prints the
\* number k and is entry k of the list, whatever is interleaved; an address
\* given twice has two numbers and two entries.
C8_BreakpointNumbers ==
    /\ Len(SetLines) = Len(breakpoints)
    /\ \A k \in 1..Len(SetLines) :
          /\ SetLines[k].n = k - 1
          /\ SetLines[k].addr = breakpoints[k]

C8_Witness ==
    /\ Len(breakpoints) >= 2
    /\ breakpoints[1] = breakpoints[2]
    /\ SetLines[1].n = 0 /\ SetLines[2].n = 1
    /\ inferior # NoInferior
    /\ Alive(procs[inferior])
    /\ \E i \in LogIndex : log[i].ev = "invalid breakpoint format"

\* the claimed address syntax: hexadecimal digits of either case, after an
\* optional 0x or 0X
HexDigitChars == Range(RadixChars) \cup Range(UpperChars)

AddressBody(t) ==
    IF Len(t) >= 2 /\ t[1] = "0" /\ t[2] \in {"x", "X"}
    THEN SubSeq(t, 3, Len(t))
    ELSE t

RECURSIVE Significant(_)
Significant(b) ==
    IF b # <<>> /\ Head(b) = "0" THEN Significant(Tail(b)) ELSE b

IsAddressText(t) ==
    /\ AddressBody(t) # <<>>
    /\ \A i \in 1..Len(AddressBody(t)) : AddressBody(t)[i] \in HexDigitChars
    /\ Len(Significant(AddressBody(t))) <= WordHexDigits

AddressValue(t) ==
    LET b == Significant(AddressBody(t))
    IN  [i \in 1..Len(b) |-> to_digit(b[i])]

\* C9: parse_addr accepts exactly the non-empty strings of hexadecimal digits
\* (either case, optional 0x/0X prefix) whose value fits in a machine word,
\* and returns that value ("0x1a", "0X1A", "1a" give 26); every other text,
\* one with a sign character included, is rejected.
C9_ParseAddrExact ==
    pc = "parsed" =>
      /\ addr_result = IF IsAddressText(addr_text)
                       THEN Some(AddressValue(addr_text))
                       ELSE None
      /\ addr_text \in {<<"0", "x", "1", "a">>, <<"0", "X", "1", "A">>, <<"1", "a">>}
            => addr_result.some /\ NatOf(addr_result.val) = 26

\* C10: every hit of a breakpoint is reported as Stopped at the breakpoint
\* address itself, the original instruction there has been executed once for
\* every hit the target was resumed from, and the trap is in place again
\* afterwards.
C10_BreakpointStepOver ==
    \A pid \in 1..Len(procs) :
       LET p == procs[pid]
       IN  \A a \in Addr :
              p.hits[a] > 0 =>
                /\ Alive(p) /\ p.trapAt = a => p.status = Stopped("SIGTRAP", a)
                /\ p.stepped[a] = p.hits[a] - (IF p.trapAt = a THEN 1 ELSE 0)
                /\ Alive(p) => p.mem[a] = TRAP

\* C11: an address has a recorded original byte exactly when the trap opcode
\* is installed at it in the memory of the live target: every install, at
\* start or by the breakpoint command, records the byte it displaced.
C11_RecordedIffInstalled ==
    \A pid \in 1..Len(procs) :
       \A a \in Addr :
          original_byte(procs[pid], a) # NoByte
             <=> (Alive(procs[pid]) /\ procs[pid].mem[a] = TRAP)

\* C12: a memory write or a backtrace is issued only on a process that is
\* stopped, never on one that has exited, been signaled or been terminated.
C12_TouchedOnlyWhileStopped ==
    [][\A i \in 1..Len(Added) :
          Added[i].ev \in {"write_byte", "backtrace"}
             => Alive(procs[Added[i].pid])]_vars

\* C13: a breakpoint command with a valid address appends the address and
\* prints its number; it writes the trap once when a target is alive and
\* attempts no write when none is alive; a failed write adds a warning only.
C13_BreakpointValid ==
    [][Took("breakpoint") /\ parse_addr(cmd'.arg).some =>
         LET a == NatOf(parse_addr(cmd'.arg).val)
             number == PrSetBreakpoint(Len(breakpoints), a)
         IN  /\ pc' = "loop"
             /\ breakpoints' = Append(breakpoints, a)
             /\ inferior' = inferior
             /\ IF inferior # NoInferior /\ Alive(procs[inferior])
                THEN IF a \in Addr
                     THEN /\ Added = <<EvWriteByte(inferior, a), number>>
                          /\ procs'[inferior].mem[a] = TRAP
                     ELSE /\ Added = <<EvWriteByte(inferior, a),
                                       PrFailBreakpoint(a), number>>
                          /\ procs' = procs
                ELSE /\ Added = <<number>>
                     /\ procs' = procs]_vars

\* C14: a breakpoint command whose text is no address prints the
\* invalid-address line and changes nothing: list, numbers, target memory.
C14_BreakpointInvalid ==
    [][Took("breakpoint") /\ ~IsAddressText(cmd'.arg) =>
         /\ pc' = "loop"
         /\ Added = <<PrInvalidBreakpoint>>
         /\ UNCHANGED <<breakpoints, procs, inferior>>]_vars

\* C15: run starts the new target with exactly the addresses registered so
\* far, resumes it once and prints one status for it; when the start fails
\* nothing is resumed, the failure is printed and the loop goes on.
C15_RunStartsAndResumesOnce ==
    [][Took("run") =>
         LET new == Len(procs) + 1
             k   == Len(Added)
         IN  /\ pc' = "loop"
             /\ IF Len(procs') > Len(procs)
                THEN /\ inferior' = new
                     /\ k >= 3
                     /\ Added[k - 2] = EvStart(new, breakpoints)
                     /\ Added[k - 1] = EvResume(new)
                     /\ Added[k] = PrStatus(new, procs'[new].status)
                     /\ \A a \in Addr :
                           procs'[new].orig[a] # NoByte <=> a \in Range(breakpoints)
                ELSE /\ k >= 1
                     /\ Added[k] = PrErrorStart
                     /\ \A i \in 1..k : Added[i].ev \notin {"start", "resume"}]_vars

\* C16: the status a resume or a terminate returns is always rendered,
\* whatever its kind and whatever its instruction pointer, one without
\* function or line in the debug information included.
C16_StatusRendered ==
    [][\A i \in 1..Len(Added) :
          Added[i].ev = "resume" =>
             /\ i < Len(Added)
             /\ Added[i + 1] = PrStatus(Added[i].pid, procs'[Added[i].pid].status)]_vars

\* C17: parallel_map returns, under every interleaving, a vector as long as
\* the input whose element i is f(input[i]); every element is handed to
\* exactly one worker, f is applied to it exactly once, the result is stored
\* at the element's index, and at most num_threads workers are spawned.
C17_MapResult ==
    pm.pc # "unused" =>
       /\ Len(pm.threads) <= pm.num_threads
       /\ \A k \in 1..Len(pm.orig) : pm.handed[k] <= 1 /\ pm.applied[k] <= 1
       /\ \A k \in 1..Len(pm.orig) :
             Cardinality({w \in 1..Len(pm.threads) :
                            \E j \in 1..Len(pm.threads[w].nums) :
                               pm.threads[w].nums[j][1] + 1 = k}) <= 1
       /\ \A j \in 1..Len(pm.chan) :
             /\ pm.chan[j][1] + 1 \in 1..Len(pm.orig)
             /\ pm.chan[j][2] = F(pm.orig[pm.chan[j][1] + 1])
       /\ pm.pc = "done" =>
             /\ Len(pm.output_vec) = Len(pm.orig)
             /\ \A k \in 1..Len(pm.orig) :
                   /\ pm.output_vec[k] = F(pm.orig[k])
                   /\ pm.handed[k] = 1
                   /\ pm.applied[k] = 1

C17_Witness ==
    /\ pm.pc = "done"
    /\ Len(pm.orig) = 3
    /\ pm.num_threads = 2
    /\ Len(pm.threads) = 2
    /\ pm.orig[1] # pm.orig[3]

\* C18: under fair scheduling parallel_map terminates for every
\* num_threads >= 1 and every input length; when it returns, the sender of
\* the calling thread and every worker's clone are dropped, every worker is
\* joined, and the channel holds no unreceived result.
C18_Terminates ==
    /\ <>(pm.pc = "done")
    /\ [](pm.pc = "done" =>
            /\ ~pm.tx
            /\ pm.chan = <<>>
            /\ pm.joined = Len(pm.threads)
            /\ \A w \in 1..Len(pm.threads) :
                  /\ ~pm.threads[w].sender
                  /\ pm.threads[w].finished
                  /\ pm.threads[w].nums = <<>>)

C18_Witness ==
    /\ pm.pc = "done"
    /\ pm.num_threads > Len(pm.orig)
    /\ Len(pm.threads) = 2
    /\ pm.joined = 2

\* an operation op was carried out in this step
LLTook(op) == ll' # ll /\ ll'.last.op = op

\* C19: after any sequence of push_front and pop_front the list is the
\* stack its reference sequence describes: the stored values are the
\* reference sequence, get_size is its length (never below 0), is_empty
\* holds exactly when get_size is 0, and pop_front returns the most recently
\* pushed value not yet popped, or none exactly when the list is empty, and
\* then leaves the list unchanged.
C19_StackRefinement ==
    /\ [](\A l \in 1..2 :
            ll.lists[l].live =>
               /\ values_of(ll.heap, ll.lists[l].head) = ll.ref[l]
               /\ get_size(ll.lists[l]) = Len(ll.ref[l])
               /\ get_size(ll.lists[l]) >= 0
               /\ is_empty(ll.lists[l]) <=> get_size(ll.lists[l]) = 0
               /\ is_empty(ll.lists[l]) <=> ll.ref[l] = <<>>)
    /\ [][LLTook("pop_front") =>
            LET l == ll'.last.list
            IN  IF ll.ref[l] = <<>>
                THEN /\ ll'.last.ret = None
                     /\ ll'.lists = ll.lists
                     /\ ll'.heap = ll.heap
                ELSE /\ ll'.last.ret = Some(Head(ll.ref[l]))
                     /\ values_of(ll'.heap, ll'.lists[l].head) = Tail(ll.ref[l])
                     /\ get_size(ll'.lists[l]) = get_size(ll.lists[l]) - 1]_vars

C19_Witness ==
    /\ ll.pc = "ll"
    /\ ll.last.op = "pop_front"
    /\ ll.last.ret = Some(2)
    /\ ll.ref[ll.last.list] = <<1>>
    /\ get_size(ll.lists[ll.last.list]) = 1

\* C20: clone yields a list with the same size and the same values in the
\* same front-to-back order as the original and leaves the original
\* unchanged; a later push_front or pop_front on either list does not
\* affect the other.
C20_CloneIndependent ==
    [][/\ LLTook("clone") =>
            LET dst == ll'.last.list
                src == 3 - dst
            IN  /\ ll'.lists[dst].live
                /\ get_size(ll'.lists[dst]) = get_size(ll.lists[src])
                /\ values_of(ll'.heap, ll'.lists[dst].head)
                      = values_of(ll.heap, ll.lists[src].head)
                /\ ll'.lists[src] = ll.lists[src]
                /\ values_of(ll'.heap, ll'.lists[src].head)
                      = values_of(ll.heap, ll.lists[src].head)
       /\ LLTook("push_front") \/ LLTook("pop_front") =>
            LET other == 3 - ll'.last.list
            IN  /\ ll'.lists[other] = ll.lists[other]
                /\ values_of(ll'.heap, ll'.lists[other].head)
                      = values_of(ll.heap, ll.lists[other].head)]_vars

C20_Witness ==
    /\ ll.pc = "ll"
    /\ ll.lists[1].live
    /\ ll.lists[2].live
    /\ ll.last = LastOp("pop_front", 1, Some(1))
    /\ values_of(ll.heap, ll.lists[1].head) = <<2>>
    /\ values_of(ll.heap, ll.lists[2].head) = <<1, 2>>

=============================================================================
